---- MODULE Spec2Model ----
(***************************************************************************)
(* Model of wandb/sdk/backend/backend.py: the Backend handle that launches *)
(* the internal worker (a multiprocessing.Process or a BackendThread),     *)
(* and tears it down with abort()/cleanup().                               *)
(*                                                                         *)
(* Every method of Backend is a sequence of steps of the calling thread,   *)
(* one step per statement that reads or writes state shared with other     *)
(* threads (the fields of the handle, the __main__ module, the queues, the *)
(* worker and the sender interface).  pc[t] is the statement thread t is   *)
(* at, frame[t] its locals.  Exceptions end the call where they are raised.*)
(***************************************************************************)
EXTENDS Integers, Sequences, FiniteSets, TLC

VARIABLES
    done,            \* Backend._done
    record_q,        \* Backend.record_q      (a queue id, or NoneRef)
    result_q,        \* Backend.result_q      (a queue id, or NoneRef)
    wandb_process,   \* Backend.wandb_process (a worker id, or NoneRef)
    interface,       \* Backend.interface     (an interface id, or NoneRef)
    internal_pid,    \* Backend._internal_pid (a pid, or NoneInt)
    main_spec_name,  \* sys.modules["__main__"].__spec__.name (None: no __spec__)
    main_file,       \* sys.modules["__main__"].__file__      (None: no __file__)
    orig_main,       \* the two attributes as the program was started (never written)
    queues,          \* every multiprocessing.Queue allocated so far
    workers,         \* every worker object constructed so far
    ifaces,          \* every BackendSender constructed so far
    pc,              \* per thread: the statement it is at
    frame,           \* per thread: the locals of its current (or last) call
    ncalls,          \* calls made so far, per kind
    samples,         \* IPUStats.samples: the buffered observations
    devices_called,  \* IPUStats._devices_called
    static_logged,   \* per device id: the appended observations that carry
                     \* its non-variable metrics (not a field of the code)
    ipu_ret,         \* the last call on the IPUStats and what it returned
    nsample          \* calls of IPUStats.sample() made so far

handle == <<done, record_q, result_q, wandb_process, interface, internal_pid>>
mainmod == <<main_spec_name, main_file>>
objects == <<queues, workers, ifaces>>
backend == <<done, record_q, result_q, wandb_process, interface, internal_pid,
             main_spec_name, main_file, orig_main, queues, workers, ifaces,
             pc, frame, ncalls>>
ipu == <<samples, devices_called, static_logged, ipu_ret, nsample>>
vars == <<backend, ipu>>

----------------------------------------------------------------------------
(* Bounds of the model *)

\* calls of ensure_launched over a run
MaxLaunch == 2
\* calls of cleanup and abort over a run
MaxTeardown == 3
\* records published over a run
MaxRecords == 1

\* The thread that owns the handle, and all threads that may use it.
MainThread == "main"
Threads == {"main", "other"}

----------------------------------------------------------------------------
(* Python values *)

\* None, where the other values are strings
None == "None"
\* None, where the other values are object ids (1, 2, ...)
NoneRef == 0
\* None, where the other values are integers >= 0 (process ids, log levels)
NoneInt == -1

\* bool(x) of a str-or-None
Truthy(x) == x # None /\ x # ""

\* x or y, of an int-or-None x
PyOr(x, y) == IF x = NoneInt \/ x = 0 THEN y ELSE x

\* logging.DEBUG
LoggingDEBUG == 10

EmptyDict == [k \in {} |-> None]
DictSet(d, k, v) == [x \in (DOMAIN d) \cup {k} |-> IF x = k THEN v ELSE d[x]]
DictDel(d, k) == [x \in (DOMAIN d) \ {k} |-> d[x]]
\* d.get(k) of a dict of strings
DictGet(d, k) == IF k \in DOMAIN d THEN d[k] ELSE None

----------------------------------------------------------------------------
(* Inputs *)

StartMethods == {"thread", "spawn"}
SettingsKeys == {"start_method", "_early_logger"}
SettingsDicts ==
    UNION { { d \in [D -> StartMethods \cup {"<logger>"}] :
                /\ ("start_method" \in D => d["start_method"] \in StartMethods)
                /\ ("_early_logger" \in D => d["_early_logger"] = "<logger>") }
            : D \in SUBSET SettingsKeys }
\* the settings argument: None (the default) or a mapping
SettingsArgs == {[isNone |-> TRUE, dict |-> EmptyDict]}
                \cup {[isNone |-> FALSE, dict |-> d] : d \in SettingsDicts}
\* the log_level argument: None (the default) or logging.NOTSET
LogLevelArgs == {NoneInt, 0}

\* process ids the operating system may give a started process
Pids == {4001}

\* names and paths the program may have been started under
MainSpecNames == {None, "", "pkg.train"}
MainFiles == {None, "/app/train.py"}
MpMainName == "wandb.mpmain"
MpMainFile == "<wandb>/mpmain/__main__.py"

----------------------------------------------------------------------------
(* IPUStats: the texts gcipuinfo reports and how they are parsed *)

\* sample() calls over a run
MaxSamples == 3

\* The text of a reading: a number (or NotANumber, for text that is no
\* number) followed by a unit suffix ("" for none).
NotANumber == -2
Text(num, suffix) == [num |-> num, suffix |-> suffix]

\* float(value) succeeds, and gives an integer
Numeric(v) == v.suffix = "" /\ v.num # NotANumber

\* IPUStats._pid, and the pid of some other process
OwnPid == 7
OtherPid == 8

\* lines 35-42
variable_metric_keys == {"average board temp", "average die temp", "clock",
                         "ipu power", "ipu utilisation",
                         "ipu utilisation (session)"}

\* lines 63-70, in the order of the dict
metric_suffixes == << <<"temp", "C">>, <<"clock", "MHz">>, <<"power", "W">>,
                      <<"utilisation", "%">>, <<"utilisation (session)", "%">>,
                      <<"speed", "GT/s">> >>

\* The keys of a device's readings, and key.endswith(metric) for them
DeviceKeys == {"id", "user process id", "clock"}
EndsWith(key, metric) == <<key, metric>> \in {<<"clock", "clock">>}

\* lines 72-75: the loop over metric_suffixes from entry i on; kv is the key
\* (with the unit appended to it so far, "" for none) and the value
RECURSIVE StripSuffix(_, _)
StripSuffix(kv, i) ==
    IF i > Len(metric_suffixes) THEN kv
    ELSE LET metric == metric_suffixes[i][1]
             suffix == metric_suffixes[i][2]
         IN  IF kv.unit = "" /\ EndsWith(kv.key, metric) /\ kv.value.suffix = suffix
               THEN StripSuffix([key   |-> kv.key, unit |-> suffix,
                                 value |-> Text(kv.value.num, "")], i + 1)
               ELSE StripSuffix(kv, i + 1)

\* lines 61-83: parse_metric(key, value); parsed is FALSE for a return of None
parse_metric(key, value) ==
    LET kv == StripSuffix([key |-> key, unit |-> "", value |-> value], 1)
    IN  IF Numeric(kv.value)
          THEN [parsed |-> TRUE, key |-> kv.key, unit |-> kv.unit, value |-> kv.value.num]
          ELSE [parsed |-> FALSE, key |-> kv.key, unit |-> kv.unit, value |-> 0]

\* int(pid) succeeds
IntParses(v) == v.suffix = "" /\ v.num # NotANumber

\* The readings a device may report under each key
Readings(key) ==
    CASE key = "id" -> {Text(0, "")}
      [] key = "user process id" ->
            {Text(OwnPid, ""), Text(OtherPid, ""), Text(NotANumber, "")}
      [] key = "clock" -> {Text(1, "MHz"), Text(2, "MHz"), Text(NotANumber, "")}

\* One device as getDevices() reports it: a mapping from keys to texts.  The
\* devices that are not the program's own differ in nothing but the pid.
DeviceDicts ==
    UNION { { d \in [D -> UNION {Readings(k) : k \in DeviceKeys}] :
                /\ \A k \in D : d[k] \in Readings(k)
                /\ ("user process id" \notin D \/ d["user process id"].num # OwnPid)
                      => "id" \in D /\ d["clock"] = Text(1, "MHz") }
            : D \in {D \in SUBSET DeviceKeys : "clock" \in D} }

\* The answers of getDevices(): no device, one device, or two
DeviceQueries ==
    {<<>>} \cup {<<d>> : d \in DeviceDicts}
           \cup {<<d1, d2>> : d1 \in DeviceDicts, d2 \in DeviceDicts}

\* device_metrics.get("id"), with NoneInt for None
DeviceId(d) == IF "id" \in DOMAIN d THEN d["id"].num ELSE NoneInt
DeviceIdValues == {NoneInt, 0}

\* an empty dict of metrics
NoStats == [k \in {} |-> 0]

\* f updated by the entries of g
Merge(f, g) ==
    [k \in (DOMAIN f) \cup (DOMAIN g) |-> IF k \in DOMAIN g THEN g[k] ELSE f[k]]

\* IPUStats.__init__ (lines 44-59)
IPUInit ==
    /\ samples = <<>>
    /\ devices_called = {}
    /\ static_logged = [i \in DeviceIdValues |-> 0]
    /\ ipu_ret = [op |-> "init", warned |-> FALSE, unparsed |-> FALSE, value |-> NoStats]
    /\ nsample = 0

----------------------------------------------------------------------------
(* Initial state: Backend.__init__, in a freshly started program *)

\* ensure_launched has run to its end: the handle holds a started worker and
\* the sender interface bound to it.
Launched ==
    /\ interface # NoneRef
    /\ wandb_process # NoneRef
    /\ workers[wandb_process].status # "new"
    /\ ifaces[interface].process = wandb_process

\* The frame of a call of op made now.  entry is not a local of the code: it
\* records what the handle was when the call was made.
NewFrame(op) ==
    [ op            |-> op,
      outcome       |-> "running",
      arg           |-> [isNone |-> TRUE, dict |-> EmptyDict],
      settings      |-> EmptyDict,
      save_mod_name |-> None,
      save_mod_path |-> None,
      trace         |-> <<>>,
      entry         |-> [launched |-> Launched, done |-> done] ]

Init ==
    /\ done = FALSE
    /\ record_q = NoneRef
    /\ result_q = NoneRef
    /\ wandb_process = NoneRef
    /\ interface = NoneRef
    /\ internal_pid = NoneInt
    /\ main_spec_name \in MainSpecNames
    /\ main_file \in MainFiles
    /\ orig_main = <<main_spec_name, main_file>>
    /\ queues = <<>>
    /\ workers = <<>>
    /\ ifaces = <<>>
    /\ pc = [t \in Threads |-> "idle"]
    /\ frame = [t \in Threads |-> [NewFrame("none") EXCEPT !.outcome = "none"]]
    /\ ncalls = [launch |-> 0, teardown |-> 0]
    /\ IPUInit

----------------------------------------------------------------------------
(* Leaving a call *)

Goto(t, label) == pc' = [pc EXCEPT ![t] = label]

\* The locals of the call are gone; what the caller holds is left: the
\* arguments it gave, how the call ended, and what the call did.
Leave(f, outcome) ==
    [f EXCEPT !.outcome = outcome, !.settings = EmptyDict,
              !.save_mod_name = None, !.save_mod_path = None]

Return(t) ==
    /\ pc' = [pc EXCEPT ![t] = "idle"]
    /\ frame' = [frame EXCEPT ![t] = Leave(@, "ok")]

Raise(t, exc) ==
    /\ pc' = [pc EXCEPT ![t] = "idle"]
    /\ frame' = [frame EXCEPT ![t] = Leave(@, exc)]

Log(t, event) == frame' = [frame EXCEPT ![t].trace = Append(@, event)]

ReturnLog(t, event) ==
    /\ pc' = [pc EXCEPT ![t] = "idle"]
    /\ frame' = [frame EXCEPT ![t] = Leave([@ EXCEPT !.trace = Append(@, event)], "ok")]

----------------------------------------------------------------------------
(* Backend.ensure_launched *)

\* PrepareSettings without lines 64-65
PrepareSettings_KeepLogger(arg, log_level) ==
    LET s0 == IF arg.isNone \/ DOMAIN arg.dict = {} THEN EmptyDict ELSE arg.dict
    IN  DictSet(s0, "_log_level", PyOr(log_level, LoggingDEBUG))

\* lines 58-65: the settings mapping the worker is given
PrepareSettings(arg, log_level) ==
    LET s0 == IF arg.isNone \/ DOMAIN arg.dict = {} THEN EmptyDict ELSE arg.dict
        s1 == DictSet(s0, "_log_level", PyOr(log_level, LoggingDEBUG))
    IN  IF "_early_logger" \in DOMAIN s1 THEN DictDel(s1, "_early_logger") ELSE s1

\* ProcessClass with the test of line 69 inverted
ProcessClass_Inverted(settings) ==
    IF DictGet(settings, "start_method") = "thread" THEN "process" ELSE "thread"

\* line 69: the class of the worker
ProcessClass(settings) ==
    IF DictGet(settings, "start_method") # "thread" THEN "process" ELSE "thread"

\* BackendThread.__init__ sets pid = 0; a Process has no pid before it is started
InitialPid(mode) == IF mode = "thread" THEN 0 ELSE NoneInt

CallEnsureLaunched(t) ==
    /\ pc[t] = "idle"
    /\ ncalls.launch < MaxLaunch
    /\ \E arg \in SettingsArgs, log_level \in LogLevelArgs :
          frame' = [frame EXCEPT ![t] =
                      [NewFrame("ensure_launched") EXCEPT
                          !.arg = arg,
                          !.settings = PrepareSettings(arg, log_level)]]
    /\ Goto(t, "el_record_q")
    /\ ncalls' = [ncalls EXCEPT !.launch = @ + 1]
    /\ UNCHANGED <<handle, mainmod, orig_main, objects>>
    /\ UNCHANGED ipu

\* A multiprocessing.Queue as constructed: open and empty.  pending counts the
\* records put on it and not yet taken off, consumed those taken off.
NewQueue == [closes |-> 0, pending |-> 0, consumed |-> 0]

\* AllocRecordQ that keeps the record queue the handle already holds
AllocRecordQ_Reuse(t) ==
    /\ pc[t] = "el_record_q"
    /\ IF record_q # NoneRef
         THEN UNCHANGED <<queues, record_q>>
         ELSE /\ queues' = Append(queues, NewQueue)
              /\ record_q' = Len(queues) + 1
    /\ Goto(t, "el_result_q")
    /\ UNCHANGED <<done, result_q, wandb_process, interface, internal_pid,
                   mainmod, orig_main, workers, ifaces, frame, ncalls>>
    /\ UNCHANGED ipu

\* line 67: self.record_q = Queue(), which may fail for lack of resources
AllocRecordQ(t) ==
    /\ pc[t] = "el_record_q"
    /\ \/ /\ queues' = Append(queues, NewQueue)
          /\ record_q' = Len(queues) + 1
          /\ Goto(t, "el_result_q")
          /\ UNCHANGED frame
       \/ /\ Raise(t, "OSError")
          /\ UNCHANGED <<queues, record_q>>
    /\ UNCHANGED <<done, result_q, wandb_process, interface, internal_pid,
                   mainmod, orig_main, workers, ifaces, ncalls>>
    /\ UNCHANGED ipu

\* line 68: self.result_q = Queue()
AllocResultQ(t) ==
    /\ pc[t] = "el_result_q"
    /\ \/ /\ queues' = Append(queues, NewQueue)
          /\ result_q' = Len(queues) + 1
          /\ Goto(t, "el_process")
          /\ UNCHANGED frame
       \/ /\ Raise(t, "OSError")
          /\ UNCHANGED <<queues, result_q>>
    /\ UNCHANGED <<done, record_q, wandb_process, interface, internal_pid,
                   mainmod, orig_main, workers, ifaces, ncalls>>
    /\ UNCHANGED ipu

\* lines 69-79: self.wandb_process = process_class(target, kwargs)
ConstructProcess(t) ==
    /\ pc[t] = "el_process"
    /\ LET mode == ProcessClass(frame[t].settings)
       IN  workers' = Append(workers,
                [ mode       |-> mode,
                  status     |-> "new",
                  pid        |-> InitialPid(mode),
                  settings   |-> frame[t].settings,
                  record_q   |-> record_q,
                  result_q   |-> result_q,
                  terminates |-> 0,
                  joins      |-> 0 ])
    /\ wandb_process' = Len(workers) + 1
    /\ Goto(t, "el_shim")
    /\ UNCHANGED <<done, record_q, result_q, interface, internal_pid,
                   mainmod, orig_main, queues, ifaces, frame, ncalls>>
    /\ UNCHANGED ipu

\* lines 82-98: rewrite the identity of the __main__ module
ShimEnter(t) ==
    /\ pc[t] = "el_shim"
    /\ IF main_spec_name # None
         THEN /\ frame' = [frame EXCEPT ![t].save_mod_name = main_spec_name]
              /\ main_spec_name' = MpMainName
              /\ UNCHANGED main_file
         ELSE IF main_file # None
         THEN /\ frame' = [frame EXCEPT ![t].save_mod_path = main_file]
              /\ main_file' = MpMainFile
              /\ UNCHANGED main_spec_name
         ELSE UNCHANGED <<frame, main_spec_name, main_file>>
    /\ Goto(t, "el_start")
    /\ UNCHANGED <<handle, orig_main, objects, ncalls>>
    /\ UNCHANGED ipu

\* line 102: self.wandb_process.start()
StartProcess(t) ==
    /\ pc[t] = "el_start"
    /\ LET w == wandb_process IN
       \/ /\ workers[w].status = "new"
          /\ \E p \in Pids :
               workers' = [workers EXCEPT
                   ![w].status = "running",
                   ![w].pid = IF workers[w].mode = "thread" THEN @ ELSE p]
          /\ Goto(t, "el_pid")
          /\ UNCHANGED frame
       \/ /\ workers[w].status = "new"
          /\ Raise(t, IF workers[w].mode = "thread" THEN "RuntimeError" ELSE "OSError")
          /\ UNCHANGED workers
       \/ /\ workers[w].status # "new"
          /\ Raise(t, IF workers[w].mode = "thread" THEN "RuntimeError"
                                                     ELSE "AssertionError")
          /\ UNCHANGED workers
    /\ UNCHANGED <<handle, mainmod, orig_main, queues, ifaces, ncalls>>
    /\ UNCHANGED ipu

\* line 103: self._internal_pid = self.wandb_process.pid
RecordPid(t) ==
    /\ pc[t] = "el_pid"
    /\ internal_pid' = workers[wandb_process].pid
    /\ Goto(t, "el_undo")
    /\ UNCHANGED <<done, record_q, result_q, wandb_process, interface,
                   mainmod, orig_main, objects, frame, ncalls>>
    /\ UNCHANGED ipu

\* lines 108-112: undo the rewrite
ShimExit(t) ==
    /\ pc[t] = "el_undo"
    /\ IF Truthy(frame[t].save_mod_name)
         THEN /\ main_spec_name' = frame[t].save_mod_name
              /\ UNCHANGED main_file
         ELSE IF Truthy(frame[t].save_mod_path)
         THEN /\ main_file' = frame[t].save_mod_path
              /\ UNCHANGED main_spec_name
         ELSE UNCHANGED <<main_spec_name, main_file>>
    /\ Goto(t, "el_interface")
    /\ UNCHANGED <<handle, orig_main, objects, frame, ncalls>>
    /\ UNCHANGED ipu

\* lines 114-116: self.interface = BackendSender(process, record_q, result_q)
ConstructInterface(t) ==
    /\ pc[t] = "el_interface"
    /\ ifaces' = Append(ifaces,
            [ process  |-> wandb_process,
              record_q |-> record_q,
              result_q |-> result_q,
              joins    |-> 0 ])
    /\ interface' = Len(ifaces) + 1
    /\ Return(t)
    /\ UNCHANGED <<done, record_q, result_q, wandb_process, internal_pid,
                   mainmod, orig_main, queues, workers, ncalls>>
    /\ UNCHANGED ipu

----------------------------------------------------------------------------
(* Backend.abort and Backend.cleanup *)

CallAbort(t) ==
    /\ pc[t] = "idle"
    /\ ncalls.teardown < MaxTeardown
    /\ frame' = [frame EXCEPT ![t] = NewFrame("abort")]
    /\ Goto(t, "ab_terminate")
    /\ ncalls' = [ncalls EXCEPT !.teardown = @ + 1]
    /\ UNCHANGED <<handle, mainmod, orig_main, objects>>
    /\ UNCHANGED ipu

CallCleanup(t) ==
    /\ pc[t] = "idle"
    /\ ncalls.teardown < MaxTeardown
    /\ frame' = [frame EXCEPT ![t] = NewFrame("cleanup")]
    /\ Goto(t, "cl_check")
    /\ ncalls' = [ncalls EXCEPT !.teardown = @ + 1]
    /\ UNCHANGED <<handle, mainmod, orig_main, objects>>
    /\ UNCHANGED ipu

\* Whether worker w has a terminate() that can be called: a BackendThread has
\* none (threading.Thread defines none), and a Process that was never started
\* has no child to signal.
CanTerminate(w) ==
    /\ w # NoneRef
    /\ workers[w].mode = "process"
    /\ workers[w].status # "new"

\* line 127: self.wandb_process.terminate()
Terminate(t) ==
    /\ pc[t] = "ab_terminate"
    /\ IF CanTerminate(wandb_process)
         THEN /\ workers' = [workers EXCEPT ![wandb_process].terminates = @ + 1]
              /\ Log(t, "terminate")
              /\ Goto(t, "cl_check")
         ELSE /\ Raise(t, "AttributeError")
              /\ UNCHANGED workers
    /\ UNCHANGED <<handle, mainmod, orig_main, queues, ifaces, ncalls>>
    /\ UNCHANGED ipu

\* CheckDone without the early return
CheckDone_NoGuard(t) ==
    /\ pc[t] = "cl_check"
    /\ Goto(t, "cl_set")
    /\ UNCHANGED <<handle, mainmod, orig_main, objects, frame, ncalls>>
    /\ UNCHANGED ipu

\* lines 132-133: if self._done: return
CheckDone(t) ==
    /\ pc[t] = "cl_check"
    /\ IF done THEN Return(t)
               ELSE Goto(t, "cl_set") /\ UNCHANGED frame
    /\ UNCHANGED <<handle, mainmod, orig_main, objects, ncalls>>
    /\ UNCHANGED ipu

\* SetDone followed by the worker join, the interface join left out
SetDone_WorkerFirst(t) ==
    /\ pc[t] = "cl_set"
    /\ done' = TRUE
    /\ Log(t, "set_done")
    /\ Goto(t, "cl_process_join")
    /\ UNCHANGED <<record_q, result_q, wandb_process, interface, internal_pid,
                   mainmod, orig_main, objects, ncalls>>
    /\ UNCHANGED ipu

\* line 134: self._done = True
SetDone(t) ==
    /\ pc[t] = "cl_set"
    /\ done' = TRUE
    /\ Log(t, "set_done")
    /\ Goto(t, "cl_interface_join")
    /\ UNCHANGED <<record_q, result_q, wandb_process, interface, internal_pid,
                   mainmod, orig_main, objects, ncalls>>
    /\ UNCHANGED ipu

\* BackendSender.join()
SenderJoin(i) ==
    /\ queues[ifaces[i].record_q].pending = 0
    /\ ifaces' = [ifaces EXCEPT ![i].joins = @ + 1]

\* InterfaceJoin that goes on without joining the sender interface
InterfaceJoin_Skipped(t) ==
    /\ pc[t] = "cl_interface_join"
    /\ Log(t, "interface.join")
    /\ Goto(t, "cl_process_join")
    /\ UNCHANGED <<handle, mainmod, orig_main, queues, workers, ifaces, ncalls>>
    /\ UNCHANGED ipu

\* line 135: self.interface.join()
InterfaceJoin(t) ==
    /\ pc[t] = "cl_interface_join"
    /\ IF interface # NoneRef
         THEN /\ SenderJoin(interface)
              /\ Log(t, "interface.join")
              /\ Goto(t, "cl_process_join")
         ELSE /\ Raise(t, "AttributeError")
              /\ UNCHANGED ifaces
    /\ UNCHANGED <<handle, mainmod, orig_main, queues, workers, ncalls>>
    /\ UNCHANGED ipu

\* ProcessJoin that returns without waiting for the worker to exit
ProcessJoin_NoWait(t) ==
    /\ pc[t] = "cl_process_join"
    /\ wandb_process # NoneRef
    /\ workers' = [workers EXCEPT ![wandb_process].joins = @ + 1]
    /\ Log(t, "wandb_process.join")
    /\ Goto(t, "cl_close_record_q")
    /\ UNCHANGED <<handle, mainmod, orig_main, queues, ifaces, ncalls>>
    /\ UNCHANGED ipu

\* line 136: self.wandb_process.join(), which returns once the worker has
\* exited and raises for a worker that was never started
ProcessJoin(t) ==
    /\ pc[t] = "cl_process_join"
    /\ wandb_process # NoneRef
    /\ LET w == wandb_process IN
       \/ /\ workers[w].status = "exited"
          /\ workers' = [workers EXCEPT ![w].joins = @ + 1]
          /\ Log(t, "wandb_process.join")
          /\ Goto(t, "cl_close_record_q")
       \/ /\ workers[w].status = "new"
          /\ Raise(t, IF workers[w].mode = "thread" THEN "RuntimeError"
                                                     ELSE "AssertionError")
          /\ UNCHANGED workers
    /\ UNCHANGED <<handle, mainmod, orig_main, queues, ifaces, ncalls>>
    /\ UNCHANGED ipu

\* line 137: self.record_q.close()
CloseRecordQ(t) ==
    /\ pc[t] = "cl_close_record_q"
    /\ queues' = [queues EXCEPT ![record_q].closes = @ + 1]
    /\ Log(t, "record_q.close")
    /\ Goto(t, "cl_close_result_q")
    /\ UNCHANGED <<handle, mainmod, orig_main, workers, ifaces, ncalls>>
    /\ UNCHANGED ipu

\* line 138: self.result_q.close()
CloseResultQ(t) ==
    /\ pc[t] = "cl_close_result_q"
    /\ queues' = [queues EXCEPT ![result_q].closes = @ + 1]
    /\ ReturnLog(t, "result_q.close")
    /\ UNCHANGED <<handle, mainmod, orig_main, workers, ifaces, ncalls>>
    /\ UNCHANGED ipu

----------------------------------------------------------------------------
(* The worker *)

\* The worker ends: wandb_internal returns, crashes, or is killed.
WorkerExit(w) ==
    /\ workers[w].status = "running"
    /\ workers' = [workers EXCEPT ![w].status = "exited"]
    /\ UNCHANGED <<handle, mainmod, orig_main, queues, ifaces, pc, frame, ncalls>>
    /\ UNCHANGED ipu

\* The worker takes the next record off its record queue and handles it.
WorkerConsume(w) ==
    /\ workers[w].status = "running"
    /\ queues[workers[w].record_q].pending > 0
    /\ queues' = [queues EXCEPT ![workers[w].record_q].pending = @ - 1,
                                ![workers[w].record_q].consumed = @ + 1]
    /\ UNCHANGED <<handle, mainmod, orig_main, workers, ifaces, pc, frame, ncalls>>
    /\ UNCHANGED ipu

----------------------------------------------------------------------------
(* The owning program between its calls on the handle *)

\* The records published so far on the first n queues
RECURSIVE Published(_)
Published(n) ==
    IF n = 0 THEN 0
    ELSE queues[n].pending + queues[n].consumed + Published(n - 1)

\* The program publishes a record through the sender interface of the handle,
\* which it does not do once the handle is done.
Enqueue(t) ==
    /\ pc[t] = "idle"
    /\ ~done
    /\ interface # NoneRef
    /\ Published(Len(queues)) < MaxRecords
    /\ LET q == ifaces[interface].record_q IN
       /\ queues[q].closes = 0
       /\ queues' = [queues EXCEPT ![q].pending = @ + 1]
    /\ UNCHANGED <<handle, mainmod, orig_main, workers, ifaces, pc, frame, ncalls>>
    /\ UNCHANGED ipu

----------------------------------------------------------------------------
(* IPUStats.sample, clear and serialize *)

\* lines 104-112: the metrics of device d that this call puts in stats
LoggedKeys(d, initial_call) ==
    {k \in DOMAIN d : /\ initial_call \/ k \in variable_metric_keys
                      /\ parse_metric(k, d[k]).parsed}

\* line 112: self.name.format(device_id, parsed_key)
MetricName(d, k) ==
    LET p == parse_metric(k, d[k]) IN <<DeviceId(d), p.key, p.unit>>

DeviceStats(d, initial_call) ==
    LET keys == LoggedKeys(d, initial_call)
    IN  [n \in {MetricName(d, k) : k \in keys} |->
            LET k == CHOOSE x \in keys : MetricName(d, x) = n
            IN  parse_metric(k, d[k]).value]

\* lines 107-110: parse_metric returned None for a metric of device d that
\* this call was to put in stats
SomeUnparsed(d, initial_call) ==
    \E k \in DOMAIN d :
        /\ initial_call \/ k \in variable_metric_keys
        /\ ~parse_metric(k, d[k]).parsed

\* lines 91-112: one turn of the loop over the devices.  acc holds stats,
\* _devices_called, the device ids whose non-variable metrics were put in
\* stats by this call, whether parse_metric returned None for some metric,
\* and whether an exception has ended the loop.
SampleDevice(acc, d) ==
    IF "user process id" \notin DOMAIN d THEN acc
    ELSE IF ~IntParses(d["user process id"]) THEN [acc EXCEPT !.failed = TRUE]
    ELSE IF d["user process id"].num # OwnPid THEN acc
    ELSE LET device_id == DeviceId(d)
             initial_call == device_id \notin acc.called
             static == {k \in LoggedKeys(d, initial_call) :
                           k \notin variable_metric_keys}
         IN  [acc EXCEPT
                !.called = IF device_id # NoneInt THEN @ \cup {device_id} ELSE @,
                !.stats = Merge(@, DeviceStats(d, initial_call)),
                !.static = IF static # {} THEN @ \cup {device_id} ELSE @,
                !.unparsed = @ \/ SomeUnparsed(d, initial_call)]

RECURSIVE SampleLoop(_, _, _)
SampleLoop(acc, devices, i) ==
    IF i > Len(devices) \/ acc.failed THEN acc
    ELSE SampleLoop(SampleDevice(acc, devices[i]), devices, i + 1)

\* lines 87-112, up to the append: what the body of the try block does when
\* getDevices() answers with devices
SampleBody(devices) ==
    SampleLoop([stats |-> NoStats, called |-> devices_called,
                static |-> {}, unparsed |-> FALSE, failed |-> FALSE], devices, 1)

\* sample() that appends what it has collected also when an exception ended
\* the loop
Sample_AppendOnFailure ==
    /\ nsample < MaxSamples
    /\ \E devices \in DeviceQueries : \E r \in {SampleBody(devices)} :
          /\ samples' = Append(samples, r.stats)
          /\ devices_called' = r.called
          /\ static_logged' = [i \in DeviceIdValues |->
                                 static_logged[i] + IF i \in r.static THEN 1 ELSE 0]
          /\ ipu_ret' = [op |-> "sample", warned |-> r.failed,
                            unparsed |-> r.unparsed, value |-> NoStats]
    /\ nsample' = nsample + 1
    /\ UNCHANGED backend

\* lines 85-115: sample().  getDevices() may raise; every exception is caught
\* at line 114 and turned into a warning.
Sample ==
    /\ nsample < MaxSamples
    /\ \/ /\ ipu_ret' = [op |-> "sample", warned |-> TRUE, unparsed |-> FALSE,
                         value |-> NoStats]
          /\ UNCHANGED <<samples, devices_called, static_logged>>
       \/ \E devices \in DeviceQueries : \E r \in {SampleBody(devices)} :
             /\ devices_called' = r.called
             /\ IF r.failed
                  THEN UNCHANGED <<samples, static_logged>>
                  ELSE /\ samples' = Append(samples, r.stats)
                       /\ static_logged' =
                             [i \in DeviceIdValues |->
                                static_logged[i] + IF i \in r.static THEN 1 ELSE 0]
             /\ ipu_ret' = [op |-> "sample", warned |-> r.failed,
                            unparsed |-> r.unparsed, value |-> NoStats]
    /\ nsample' = nsample + 1
    /\ UNCHANGED backend

\* lines 117-118: clear()
Clear ==
    /\ samples' = <<>>
    /\ ipu_ret' = [op |-> "clear", warned |-> FALSE, unparsed |-> FALSE,
                   value |-> NoStats]
    /\ UNCHANGED <<devices_called, static_logged, nsample>>
    /\ UNCHANGED backend

\* line 125: [s[key] for s in self.samples if key in s], over the first n
\* samples: their sum and their number
RECURSIVE SumOf(_, _)
SumOf(key, n) ==
    IF n = 0 THEN 0
    ELSE SumOf(key, n - 1) + IF key \in DOMAIN samples[n] THEN samples[n][key] ELSE 0

NumberOf(key) == Cardinality({n \in 1..Len(samples) : key \in DOMAIN samples[n]})

\* line 126: round(sum / len, 2), in hundredths.  With fewer than 8 summands
\* the quotient of integers is never half way between two hundredths, so
\* rounding to nearest is all of it.
Round2(sum, len) == (200 * sum + len) \div (2 * len)

\* lines 120-128: serialize(), its values in hundredths
SerializeResult ==
    IF samples = <<>> THEN NoStats
    ELSE [key \in DOMAIN samples[1] |->
            Round2(SumOf(key, Len(samples)), NumberOf(key))]

Serialize ==
    /\ ipu_ret' = [op |-> "serialize", warned |-> FALSE, unparsed |-> FALSE,
                   value |-> SerializeResult]
    /\ UNCHANGED <<samples, devices_called, static_logged, nsample>>
    /\ UNCHANGED backend

----------------------------------------------------------------------------
(* Specifications *)

Step(t) ==
    \/ CallEnsureLaunched(t)
    \/ AllocRecordQ(t)
    \/ AllocResultQ(t)
    \/ ConstructProcess(t)
    \/ ShimEnter(t)
    \/ StartProcess(t)
    \/ RecordPid(t)
    \/ ShimExit(t)
    \/ ConstructInterface(t)
    \/ CallAbort(t)
    \/ CallCleanup(t)
    \/ Terminate(t)
    \/ CheckDone(t)
    \/ SetDone(t)
    \/ InterfaceJoin(t)
    \/ ProcessJoin(t)
    \/ CloseRecordQ(t)
    \/ CloseResultQ(t)

Environment == \E w \in 1..Len(workers) : WorkerExit(w)

\* One thread uses the handle: its calls are made one after another.
Next == Step(MainThread) \/ Environment
Spec == Init /\ [][Next]_vars

\* The steps of abort() and cleanup()
TeardownStep(t) ==
    \/ CallAbort(t)
    \/ CallCleanup(t)
    \/ Terminate(t)
    \/ CheckDone(t)
    \/ SetDone(t)
    \/ InterfaceJoin(t)
    \/ ProcessJoin(t)
    \/ CloseRecordQ(t)
    \/ CloseResultQ(t)

\* Several threads use the same handle: the main thread launches the worker
\* and shuts it down, the other threads (exit hooks, error handlers) shut it
\* down.  The program was started as "python -m pkg.train".
InitConc == Init /\ main_spec_name = "pkg.train" /\ main_file = "/app/train.py"
NextConc ==
    \/ Step(MainThread)
    \/ \E t \in Threads \ {MainThread} : TeardownStep(t)
    \/ Environment
SpecConc == InitConc /\ [][NextConc]_vars

\* The steps of a call in progress
Progress(t) == pc[t] # "idle" /\ Step(t)

\* One thread uses the handle and publishes records between its calls; the
\* workers consume them.  The program was started as "python -m pkg.train"
\* and names the start method in the settings of every launch.
InitDrain == Init /\ main_spec_name = "pkg.train" /\ main_file = "/app/train.py"
Traffic == Enqueue(MainThread) \/ \E w \in 1..Len(workers) : WorkerConsume(w)
DrainStep ==
    /\ Step(MainThread)
    /\ frame'[MainThread].op = "ensure_launched"
          => DOMAIN frame'[MainThread].arg.dict = {"start_method"}
NextDrain == DrainStep \/ Traffic \/ Environment
SpecDrain == InitDrain /\ [][NextDrain]_vars

\* A call in progress goes on as long as it is not blocked; a running worker
\* goes on consuming the records on its queue, and ends at some time.
SpecDrainFair ==
    /\ SpecDrain
    /\ WF_vars(Progress(MainThread))
    /\ WF_vars(\E w \in 1..Len(workers) : WorkerConsume(w))
    /\ WF_vars(Environment)

\* The system monitor samples the IPUs of the program, and from time to time
\* serializes and clears the buffer.  The Backend of the program is left as
\* constructed.
InitIPU == Init /\ main_spec_name = "pkg.train" /\ main_file = "/app/train.py"
NextIPU == Sample \/ Serialize \/ Clear
SpecIPU == InitIPU /\ [][NextIPU]_vars

----------------------------------------------------------------------------
(* Vocabulary of the properties *)

QueueIds == 1..Len(queues)
WorkerIds == 1..Len(workers)
InterfaceIds == 1..Len(ifaces)

\* Thread t is between calls, and its last call was op.
Finished(t, op) == pc[t] = "idle" /\ frame[t].op = op

\* The statements of cleanup() after the test of the done flag
TeardownPcs == {"cl_set", "cl_interface_join", "cl_process_join",
                "cl_close_record_q", "cl_close_result_q"}

\* The order of the teardown steps of one cleanup()
TeardownOrder == <<"set_done", "interface.join", "wandb_process.join",
                   "record_q.close", "result_q.close">>

IsPrefix(s, r) == Len(s) <= Len(r) /\ \A i \in 1..Len(s) : s[i] = r[i]

\* What cleanup() did in the current or last call of t (abort() logs its
\* terminate first)
CleanupTrace(t) ==
    LET tr == frame[t].trace
    IN  IF tr # <<>> /\ Head(tr) = "terminate" THEN Tail(tr) ELSE tr

----------------------------------------------------------------------------
(* Properties *)

\* C1: when the handle is used by one thread, no queue is ever closed twice,
\* and on a Backend launched once and torn down, after any number of further
\* cleanup() and abort() calls, record_q.close() and result_q.close() have
\* each been invoked exactly once.
C1_QueuesClosedExactlyOnce ==
    /\ \A q \in QueueIds : queues[q].closes <= 1
    /\ ( /\ ncalls.launch = 1
         /\ Launched
         /\ pc[MainThread] = "idle"
         /\ workers[wandb_process].joins >= 1 )
       => /\ queues[record_q].closes = 1
          /\ queues[result_q].closes = 1

\* C1 witness: launched once, torn down, then two further calls, the last an
\* abort() that returned.
C1_Witness ==
    /\ ncalls.launch = 1
    /\ ncalls.teardown >= 3
    /\ Launched
    /\ Finished(MainThread, "abort")
    /\ frame[MainThread].outcome = "ok"
    /\ queues[record_q].closes = 1
    /\ queues[result_q].closes = 1

\* C2: what a cleanup() has done so far is always a prefix of: set the flag,
\* join the sender interface, join the worker, close the record queue, close
\* the result queue; so no queue is closed before a worker join and no worker
\* is joined before an interface join.
C2_TeardownOrder ==
    /\ \A t \in Threads : IsPrefix(CleanupTrace(t), TeardownOrder)
    /\ (\E q \in QueueIds : queues[q].closes > 0)
          => (\E w \in WorkerIds : workers[w].joins > 0)
    /\ (\E w \in WorkerIds : workers[w].joins > 0)
          => (\E i \in InterfaceIds : ifaces[i].joins > 0)

\* C2 witness: a cleanup() that performed the whole teardown.
C2_Witness ==
    /\ Finished(MainThread, "cleanup")
    /\ frame[MainThread].trace = TeardownOrder
    /\ queues[record_q].closes = 1
    /\ queues[result_q].closes = 1
    /\ workers[wandb_process].joins = 1
    /\ ifaces[interface].joins = 1

\* The threads whose current or last call is an abort() or cleanup() made on
\* a launched Backend that was not done
TeardownCallers ==
    {t \in Threads : /\ frame[t].op \in {"abort", "cleanup"}
                     /\ frame[t].entry.launched
                     /\ ~frame[t].entry.done}

\* C3: when several threads call cleanup() and abort() on the same launched
\* Backend, at most one of them is past the test of the done flag at any
\* time, and the sender interface and the worker are joined, and every queue
\* closed, at most once.
C3_OneCallerTearsDown ==
    /\ Cardinality({t \in TeardownCallers : pc[t] \in TeardownPcs}) <= 1
    /\ (ncalls.launch = 1 /\ ncalls.teardown = Cardinality(TeardownCallers))
       => /\ \A i \in InterfaceIds : ifaces[i].joins <= 1
          /\ \A w \in WorkerIds : workers[w].joins <= 1
          /\ \A q \in QueueIds : queues[q].closes <= 1

\* C4: when the first ensure_launched has exited, normally or by an
\* exception, the name of the __main__ module's spec and the module's file
\* path are what they were when the program started.
C4_MainModuleRestored ==
    ( /\ ncalls.launch = 1
      /\ Finished(MainThread, "ensure_launched") )
    => <<main_spec_name, main_file>> = orig_main

\* C5: when the first ensure_launched has ended with an exception, the handle
\* is as it was constructed: no queue, no worker and no sender interface is
\* registered on it.
C5_FailedLaunchLeavesUnstarted ==
    ( /\ ncalls.launch = 1
      /\ Finished(MainThread, "ensure_launched")
      /\ frame[MainThread].outcome # "ok" )
    => /\ record_q = NoneRef
       /\ result_q = NoneRef
       /\ wandb_process = NoneRef
       /\ interface = NoneRef
       /\ internal_pid = NoneInt

\* C6: when an abort() made on a launched Backend that was not done has
\* ended, in either run mode, it has returned normally, the worker was
\* signalled to terminate before anything else, the handle is done and both
\* queues are closed.
C6_AbortTerminatesThenCleansUp ==
    ( /\ Finished(MainThread, "abort")
      /\ frame[MainThread].entry.launched
      /\ ~frame[MainThread].entry.done )
    => /\ frame[MainThread].outcome = "ok"
       /\ frame[MainThread].trace # <<>>
       /\ Head(frame[MainThread].trace) = "terminate"
       /\ done
       /\ queues[record_q].closes >= 1
       /\ queues[result_q].closes >= 1

\* The operations performed so far on each worker, interface and queue
Operations ==
    << [w \in WorkerIds |-> <<workers[w].terminates, workers[w].joins>>],
       [i \in InterfaceIds |-> ifaces[i].joins],
       [q \in QueueIds |-> queues[q].closes] >>

\* A cleanup() of a launched Backend has run to its end.
TornDown ==
    /\ done
    /\ Launched
    /\ queues[record_q].closes >= 1
    /\ queues[result_q].closes >= 1

\* C7: every step of an abort() or cleanup() called on a Backend that was
\* torn down leaves all fields of the handle as they are, performs no
\* operation on a worker, an interface or a queue, and does not raise.
C7_NoOpOnceDone ==
    [][ ( /\ TornDown
          /\ pc[MainThread] \in {"ab_terminate", "cl_check"}
          /\ pc'[MainThread] # pc[MainThread] )
        => /\ handle' = handle
           /\ Operations' = Operations
           /\ (pc'[MainThread] = "idle" => frame'[MainThread].outcome = "ok") ]_vars

\* C8: the done flag never goes back to false, and once the Backend is torn
\* down no queue is created or closed and no sender interface is joined.
C8_DoneIsFinal ==
    [][ /\ done => done'
        /\ TornDown =>
              /\ queues' = queues
              /\ \A i \in InterfaceIds : ifaces'[i].joins = ifaces[i].joins ]_vars

\* the start_method of the caller's configuration (None when absent)
RequestedStartMethod(arg) ==
    IF arg.isNone THEN None ELSE DictGet(arg.dict, "start_method")

\* C9: a worker is a thread exactly when the configuration it was given has
\* start_method = "thread"; a thread has identity 0 and a started process a
\* non-zero process id; and when ensure_launched has returned, the worker is
\* a thread exactly when the caller's configuration has start_method =
\* "thread", and the handle records the identity of that worker.
C9_RunModeFromConfiguration ==
    /\ \A w \in WorkerIds :
          /\ workers[w].mode = "thread"
                <=> DictGet(workers[w].settings, "start_method") = "thread"
          /\ workers[w].mode = "thread" => workers[w].pid = 0
          /\ (workers[w].mode = "process" /\ workers[w].status # "new")
                => workers[w].pid > 0
    /\ ( /\ Finished(MainThread, "ensure_launched")
         /\ frame[MainThread].outcome = "ok" )
       => /\ workers[wandb_process].mode = "thread"
                <=> RequestedStartMethod(frame[MainThread].arg) = "thread"
          /\ internal_pid = workers[wandb_process].pid
          /\ internal_pid = 0 <=> workers[wandb_process].mode = "thread"

\* C9 witness: two launches have returned, one in each run mode.
C9_Witness ==
    /\ Finished(MainThread, "ensure_launched")
    /\ frame[MainThread].outcome = "ok"
    /\ \E w1, w2 \in WorkerIds :
          /\ workers[w1].mode = "thread" /\ workers[w1].status # "new"
          /\ workers[w2].mode = "process" /\ workers[w2].status # "new"
          /\ "start_method" \notin DOMAIN workers[w2].settings

\* C10: no worker is ever given a settings mapping that contains
\* "_early_logger".
C10_NoEarlyLoggerHandedOver ==
    \A w \in WorkerIds : "_early_logger" \notin DOMAIN workers[w].settings

\* C10 witness: ensure_launched was given a configuration with
\* "_early_logger" and has started a worker with what it made of it.
C10_Witness ==
    /\ Finished(MainThread, "ensure_launched")
    /\ frame[MainThread].outcome = "ok"
    /\ ~frame[MainThread].arg.isNone
    /\ "_early_logger" \in DOMAIN frame[MainThread].arg.dict
    /\ workers[wandb_process].status = "running"
    /\ "_log_level" \in DOMAIN workers[wandb_process].settings

\* The queues of worker w
WorkerQueues(w) == {workers[w].record_q, workers[w].result_q}

C17_AllocatedQueuesClosedOnce ==
    (/\ Finished(MainThread, "cleanup")
     /\ frame[MainThread].outcome = "ok"
     /\ ncalls.teardown = 1
     /\ Len(ifaces) = ncalls.launch
     /\ Len(queues) = 2 * Len(ifaces))
        => \A q \in QueueIds : queues[q].closes = 1

\* C18: when a cleanup() that found the done flag clear has ended with an
\* exception (the sender interface is absent, or a join raised), and so
\* before any queue was closed, the done flag is clear again.
C18_FailedCleanupLeavesDoneClear ==
    (/\ Finished(MainThread, "cleanup")
     /\ frame[MainThread].outcome \notin {"ok", "none"}
     /\ ~frame[MainThread].entry.done)
        => ~done

\* The threads whose last call was abort() or cleanup()
TeardownFrames == {t \in Threads : frame[t].op \in {"abort", "cleanup"}}

\* C19: when a cleanup() or abort() called on a launched Backend has returned
\* normally, the worker has been joined and both queues are closed, whichever
\* thread made the call. Stated for the runs with one completed launch in
\* which every teardown call was made on the launched Backend, at most one
\* by each thread.
C19_NormalReturnMeansTornDown ==
    (/\ ncalls.launch = 1
     /\ Launched
     /\ ncalls.teardown = Cardinality(TeardownFrames)
     /\ \A t \in TeardownFrames : frame[t].entry.launched)
        => \A t \in TeardownFrames :
              (pc[t] = "idle" /\ frame[t].outcome = "ok")
                  => /\ workers[wandb_process].joins >= 1
                     /\ queues[record_q].closes >= 1
                     /\ queues[result_q].closes >= 1

\* The call of thread t is a cleanup() made on a launched Backend whose done
\* flag was clear: the graceful teardown.
GracefulCleanup(t) ==
    /\ frame[t].op = "cleanup"
    /\ frame[t].entry.launched
    /\ ~frame[t].entry.done

\* The records published through the sender interface of the handle and not
\* yet consumed
Unconsumed ==
    IF interface = NoneRef THEN 0 ELSE queues[ifaces[interface].record_q].pending

\* Both queues of the handle are closed.
QueuesClosed ==
    /\ record_q # NoneRef /\ queues[record_q].closes >= 1
    /\ result_q # NoneRef /\ queues[result_q].closes >= 1

\* The worker has ended with records left on its queue: no acknowledgement
\* of drain will come.
WorkerGone ==
    /\ wandb_process # NoneRef
    /\ workers[wandb_process].status = "exited"
    /\ Unconsumed > 0

C12_ReturnedOnlyAfterDrainAndExit ==
    (/\ Finished(MainThread, "cleanup")
     /\ GracefulCleanup(MainThread)
     /\ frame[MainThread].outcome = "ok")
        => /\ Unconsumed = 0
           /\ workers[wandb_process].status = "exited"
           /\ QueuesClosed

C12_CleanupInProgress == pc[MainThread] # "idle" /\ GracefulCleanup(MainThread)

C12_CleanupReturned ==
    /\ Finished(MainThread, "cleanup")
    /\ frame[MainThread].outcome = "ok"
    /\ QueuesClosed

\* C12: the first cleanup() on a launched Backend has returned only if every
\* published record was consumed and the worker has exited, so it never
\* returns while the worker runs; and with a worker that goes on consuming and
\* ends, the cleanup() returns with both queues closed, unless the worker
\* ended with records left on its queue.
C12_CleanupWaitsForWorker ==
    /\ []C12_ReturnedOnlyAfterDrainAndExit
    /\ (C12_CleanupInProgress ~> (C12_CleanupReturned \/ WorkerGone))

\* C12 witness: a graceful cleanup() has returned after the worker consumed
\* a published record and exited.
C12_Witness ==
    /\ Finished(MainThread, "cleanup")
    /\ GracefulCleanup(MainThread)
    /\ frame[MainThread].outcome = "ok"
    /\ queues[ifaces[interface].record_q].consumed = 1
    /\ workers[wandb_process].status = "exited"
    /\ QueuesClosed

\* C15: for every worker that was never terminated by abort(), once its
\* record queue or its result queue is closed the worker has exited and no
\* record published on its record queue is left unconsumed.
C15_ClosedOnlyAfterDrainAndExit ==
    \A w \in WorkerIds :
        (/\ workers[w].terminates = 0
         /\ \/ queues[workers[w].record_q].closes >= 1
            \/ queues[workers[w].result_q].closes >= 1)
            => /\ workers[w].status = "exited"
               /\ queues[workers[w].record_q].pending = 0

\* C15 witness: a graceful cleanup() has just closed the record queue, on
\* which a record was published and consumed, and is about to close the
\* result queue.
C15_Witness ==
    /\ pc[MainThread] = "cl_close_result_q"
    /\ GracefulCleanup(MainThread)
    /\ workers[wandb_process].terminates = 0
    /\ workers[wandb_process].record_q = record_q
    /\ queues[record_q].closes = 1
    /\ queues[record_q].consumed = 1
    /\ queues[result_q].closes = 0

\* abort() has just been called on a launched Backend, not yet done, whose
\* worker has not consumed every published record.
AbortOnBusyWorker ==
    /\ pc[MainThread] = "ab_terminate"
    /\ frame[MainThread].op = "abort"
    /\ frame[MainThread].entry.launched
    /\ ~frame[MainThread].entry.done
    /\ Unconsumed > 0

AbortReturned ==
    /\ Finished(MainThread, "abort")
    /\ frame[MainThread].outcome = "ok"
    /\ done
    /\ QueuesClosed

\* C16: an abort() called on a launched Backend whose worker, run as a
\* process, still has unconsumed records returns, with the handle done and
\* both queues closed.
C16_AbortReturnsWithoutDrain ==
    (AbortOnBusyWorker /\ workers[wandb_process].mode = "process")
        ~> AbortReturned

\* The buffer holds what it held, in the same order, and n more observations.
BufferGrewBy(n) ==
    /\ Len(samples') = Len(samples) + n
    /\ \A i \in 1..Len(samples) : samples'[i] = samples[i]

\* C13 (amended): every call of sample() returns; when an exception ended
\* its try block (the device query or the reading of a device raised) it
\* has emitted the warning and the buffer is as it was, and otherwise it has
\* appended exactly one observation and emitted no warning, also when the
\* text of a metric was no number: that metric is left out of the observation.
C13_SampleNeverRaises ==
    [][nsample' # nsample
         => /\ ipu_ret'.op = "sample"
            /\ IF ipu_ret'.warned THEN samples' = samples ELSE BufferGrewBy(1)
            /\ ipu_ret'.unparsed /\ ~ipu_ret'.warned => BufferGrewBy(1)]_vars

\* C13 witness: a sample() has met a metric whose text is no number, and has
\* appended its observation, with the other metrics of the device in it,
\* without a warning.
C13_Witness ==
    /\ ipu_ret.op = "sample"
    /\ ipu_ret.unparsed
    /\ ~ipu_ret.warned
    /\ Len(samples) = 1
    /\ samples[1] # NoStats

\* C13: every call of sample() returns; a call in which the device query or
\* the parsing failed has emitted the warning and has left the buffer as it
\* was, and every other call has appended exactly one observation.
C13_FailedParsingWarns ==
    [][nsample' # nsample
         => /\ ipu_ret'.op = "sample"
            /\ IF ipu_ret'.warned \/ ipu_ret'.unparsed
                 THEN ipu_ret'.warned /\ samples' = samples
                 ELSE BufferGrewBy(1)]_vars

\* The metric names that occur in the buffered samples
BufferedNames == UNION {DOMAIN samples[n] : n \in 1..Len(samples)}

\* C14: what serialize() has returned is the empty mapping when the buffer is
\* empty (as it is after clear()), and otherwise has one entry for every
\* metric name that occurs in the buffered samples, whose value (held in
\* hundredths) is the arithmetic mean of that metric's values over the
\* samples that contain it.
C14_SerializeMeansOfAllMetrics ==
    ipu_ret.op = "serialize"
        => /\ samples = <<>> => ipu_ret.value = NoStats
           /\ DOMAIN ipu_ret.value = BufferedNames
           /\ \A key \in DOMAIN ipu_ret.value :
                 ipu_ret.value[key] * NumberOf(key) = 100 * SumOf(key, Len(samples))

\* C20: every device id marked as already seen has had its non-variable
\* metrics appended to the buffer in exactly one observation.
C20_SeenOnlyIfStaticMetricsAppended ==
    \A device_id \in devices_called : static_logged[device_id] = 1

====
